---- MODULE Spec2Model ----
(***************************************************************************)
(* Model of the Jupyter session client (runtimelib/src/jupyter/client.rs)  *)
(* and of the message-gathering loop (web/src/startup.rs).                 *)
(*                                                                         *)
(* One caller task attaches to one runtime, obtains a JupyterClient and    *)
(* uses it: run_code, next_io, listen, gather_messages, detach.  The       *)
(* kernel is the environment: it accepts or refuses connections, puts      *)
(* frames on the iopub and shell channels, and closes iopub.               *)
(***************************************************************************)
EXTENDS Integers, Sequences, FiniteSets, TLC

VARIABLES
    pc,            \* position of the caller task
    attachStep,    \* index of the attach step about to run (1..6)
    failedStep,    \* attach step whose connect/subscribe failed, or "none"
    attachResult,  \* "none" | "ok" | "err" | "panic"
    session,       \* "none" | "held" | "consumed": the JupyterClient value
    conn,          \* role -> "none" | "open" | "closing" | "closed"
    iopub,         \* frames waiting on the iopub socket (FIFO)
    arrival,       \* history: every frame that arrived on iopub, in order
    iopubClosed,   \* the iopub channel was closed by the peer
    log,           \* history: reads of iopub and append attempts
    pending,       \* gather_messages: records whose INSERT is in flight
    attempts,      \* history: the record of every INSERT gather_messages ran
    ledger,        \* rows committed to disorganized_messages, in order
    nextRowId,     \* next uuid::Uuid::new_v4() value
    shell,         \* frames waiting on the shell socket (FIFO)
    shellClosed,   \* the shell channel was closed by the peer
    sent,          \* history: every frame set run_code sent, with its socket
    kernelInbox,   \* execute_request ids the kernel has not answered yet
    nextReqId,     \* next JupyterMessage::new id
    execReq,       \* id of the request of the run_code call in progress
    execResult,    \* outcome of the last finished run_code call
    listenExit,    \* "none" | "shutdown" | "error": why listen() returned
    detachResult,  \* "none" | "ok" | "timeout"
    loopPc,        \* two loops: runtime id -> "ingest" | "ingest_done"
    loopIopub,     \* two loops: runtime id -> frames waiting on its iopub
    loopArrival,   \* two loops: runtime id -> history of arrived frames
    loopPending,   \* two loops: runtime id -> records whose INSERT is in flight
    loopLedger,    \* two loops: the rows committed to the shared table
    loopNextRow    \* two loops: next uuid::Uuid::new_v4() value

vars == <<pc, attachStep, failedStep, attachResult, session, conn, iopub,
          arrival, iopubClosed, log, pending, attempts, ledger, nextRowId,
          shell, shellClosed, sent, kernelInbox, nextReqId, execReq, execResult, listenExit,
          detachResult, loopPc, loopIopub, loopArrival, loopPending,
          loopLedger, loopNextRow>>

\* The state of the one-session model and of the two-loop model.
sessionVars == <<pc, attachStep, failedStep, attachResult, session, conn,
                 iopub, arrival, iopubClosed, log, pending, attempts, ledger,
                 nextRowId, shell, shellClosed, sent, kernelInbox, nextReqId,
                 execReq, execResult, listenExit, detachResult>>
loopVars == <<loopPc, loopIopub, loopArrival, loopPending, loopLedger,
              loopNextRow>>

attachVars == <<attachStep, failedStep, attachResult>>
iopubVars  == <<iopub, arrival, iopubClosed>>
ingestVars == <<pending, attempts, ledger, nextRowId>>
shellVars  == <<shell, shellClosed, sent, kernelInbox, nextReqId, execReq,
               execResult>>

----------------------------------------------------------------------------
(* Bounds *)

MaxIopub == 3        \* frames the kernel puts on iopub
MaxExec == 2         \* run_code calls
MaxClosedReads == 1  \* reads attempted on a closed iopub channel
MaxLoopIopub == 2    \* two loops: frames the kernel puts on each iopub

MaxLog == 2 * MaxIopub + MaxClosedReads

----------------------------------------------------------------------------
(* Data *)

Roles == {"shell", "iopub", "stdin", "control", "heartbeat"}

\* JupyterClient: the five Connection fields.
JupyterClient == [Roles -> {"open"}]

RuntimeId == "rt1"

\* The runtimes of the two-loop model: one gather_messages task each.
Runtimes == {"rt1", "rt2"}

BadFrame == [bad |-> TRUE]

\* The (header msg_type, parent msg_type, content execution_state) of the
\* frames the kernel broadcasts.
IopubKinds ==
    { [msg_type |-> "status", parent_type |-> pt, exec_state |-> es] :
        pt \in {"execute_request", "shutdown_request"},
        es \in {"busy", "idle"} }

ParentIdOf(pt) == IF pt = "shutdown_request" THEN 202 ELSE 201

\* JupyterMessage as read from iopub: header, parent_header, content.
Envelope(id, k) ==
    [bad |-> FALSE,
     header |-> [msg_id |-> id, msg_type |-> k.msg_type],
     parent_header |-> [msg_id |-> ParentIdOf(k.parent_type),
                        msg_type |-> k.parent_type],
     content |-> [execution_state |-> k.exec_state]]

IsBad(f) == f.bad

----------------------------------------------------------------------------
(* Messaging (crate::jupyter::messaging): Connection, JupyterMessage *)

\* JupyterMessage::read suspends until a frame set arrives or the peer
\* closes.
CanRead(q, closed) == q # <<>> \/ closed

\* JupyterMessage::read: once the channel is closed the read fails with
\* ConnectionClosed; otherwise it takes the oldest frame set and decodes it,
\* and an undecodable frame set is a ProtocolError.
Read(q, closed) ==
    IF closed \/ q = <<>>
    THEN [ok |-> FALSE, msg |-> BadFrame, rest |-> q, err |-> "ConnectionClosed"]
    ELSE [ok |-> ~IsBad(Head(q)), msg |-> Head(q), rest |-> Tail(q),
          err |-> IF IsBad(Head(q)) THEN "ProtocolError" ELSE "none"]

\* Dropping a Connection closes its socket.
Drop(c) == [r \in Roles |-> IF c[r] \in {"open", "closing"} THEN "closed" ELSE c[r]]

----------------------------------------------------------------------------
(* JupyterRuntime::attach *)

\* Steps of attach in program order: the subscribe on the SUB socket, then
\* the five connects.
AttachSteps == <<"subscribe", "iopub", "shell", "stdin", "control", "heartbeat">>

\* A faulty attach that ignores the error of a failed step and carries on.
OnStepErrIgnore(step) == "continue"

\* What attach does when a step fails: the subscribe error is returned as
\* Err(anyhow!(..)); a connect error meets .unwrap() and panics.
OnStepErr(step) == IF step = "subscribe" THEN "err" ELSE "panic"

Init ==
    /\ pc = "start"
    /\ attachStep = 1
    /\ failedStep = "none"
    /\ attachResult = "none"
    /\ session = "none"
    /\ conn = [r \in Roles |-> "none"]
    /\ iopub = <<>>
    /\ arrival = <<>>
    /\ iopubClosed = FALSE
    /\ log = <<>>
    /\ pending = <<>>
    /\ attempts = <<>>
    /\ ledger = <<>>
    /\ nextRowId = 1
    /\ shell = <<>>
    /\ shellClosed = FALSE
    /\ sent = <<>>
    /\ kernelInbox = <<>>
    /\ nextReqId = 1
    /\ execReq = 0
    /\ execResult = [status |-> "none"]
    /\ listenExit = "none"
    /\ detachResult = "none"
    /\ loopPc = [rt \in Runtimes |-> "ingest"]
    /\ loopIopub = [rt \in Runtimes |-> <<>>]
    /\ loopArrival = [rt \in Runtimes |-> <<>>]
    /\ loopPending = [rt \in Runtimes |-> <<>>]
    /\ loopLedger = <<>>
    /\ loopNextRow = 1

AttachCall ==
    /\ pc = "start"
    /\ pc' = "attaching"
    /\ UNCHANGED <<attachVars, session, conn, iopubVars, log, ingestVars,
                   shellVars, listenExit, detachResult>>
    /\ UNCHANGED loopVars

\* One step of attach: iopub_socket.subscribe("") or <role>.socket.connect.
AttachStep ==
    /\ pc = "attaching"
    /\ attachStep <= Len(AttachSteps)
    /\ LET step == AttachSteps[attachStep] IN
       \E ok \in BOOLEAN :
         LET out == IF ok THEN "continue" ELSE OnStepErr(step) IN
         /\ failedStep' = IF ok THEN failedStep ELSE step
         /\ IF out = "continue"
            THEN /\ conn' = IF ok /\ step \in Roles
                            THEN [conn EXCEPT ![step] = "open"]
                            ELSE conn
                 /\ attachStep' = attachStep + 1
                 /\ UNCHANGED <<pc, attachResult>>
            ELSE \* the error return or the unwinding drops the locals
                 /\ conn' = Drop(conn)
                 /\ attachResult' = out
                 /\ pc' = IF out = "panic" THEN "panicked" ELSE "attach_failed"
                 /\ UNCHANGED attachStep
    /\ UNCHANGED <<session, iopubVars, log, ingestVars, shellVars,
                   listenExit, detachResult>>
    /\ UNCHANGED loopVars

\* return Ok(JupyterClient { iopub, shell, stdin, control, heartbeat })
AttachReturn ==
    /\ pc = "attaching"
    /\ attachStep = Len(AttachSteps) + 1
    /\ attachResult' = "ok"
    /\ session' = "held"
    /\ pc' = "attached"
    /\ UNCHANGED <<attachStep, failedStep, conn, iopubVars, log, ingestVars,
                   shellVars, listenExit, detachResult>>
    /\ UNCHANGED loopVars

----------------------------------------------------------------------------
(* The kernel (environment) *)

\* The kernel broadcasts one frame set on iopub; it arrives at the SUB
\* socket either intact or undecodable.
KernelPublish ==
    /\ conn["iopub"] = "open"
    /\ ~iopubClosed
    /\ Len(arrival) < MaxIopub
    /\ \E f \in {Envelope(Len(arrival) + 1, k) : k \in IopubKinds} \cup {BadFrame} :
         /\ iopub' = Append(iopub, f)
         /\ arrival' = Append(arrival, f)
    /\ UNCHANGED <<pc, attachVars, session, conn, iopubClosed, log,
                   ingestVars, shellVars, listenExit, detachResult>>
    /\ UNCHANGED loopVars

\* The kernel broadcasts the busy status of an execute_request, intact: the
\* one kind of traffic of a kernel that is running a cell.
KernelPublishBusy ==
    /\ conn["iopub"] = "open"
    /\ ~iopubClosed
    /\ Len(arrival) < MaxIopub
    /\ LET f == Envelope(Len(arrival) + 1,
                         [msg_type |-> "status", parent_type |-> "execute_request",
                          exec_state |-> "busy"])
       IN /\ iopub' = Append(iopub, f)
          /\ arrival' = Append(arrival, f)
    /\ UNCHANGED <<pc, attachVars, session, conn, iopubClosed, log,
                   ingestVars, shellVars, listenExit, detachResult>>
    /\ UNCHANGED loopVars

\* The peer closes the broadcast channel.
KernelCloseIopub ==
    /\ conn["iopub"] = "open"
    /\ ~iopubClosed
    /\ iopubClosed' = TRUE
    /\ UNCHANGED <<pc, attachVars, session, conn, iopub, arrival, log,
                   ingestVars, shellVars, listenExit, detachResult>>
    /\ UNCHANGED loopVars

\* An execute_reply: its parent_header is the header of the request.
Reply(reqId) ==
    [bad |-> FALSE,
     header |-> [msg_id |-> 300 + reqId, msg_type |-> "execute_reply"],
     parent_header |-> [msg_id |-> reqId, msg_type |-> "execute_request"],
     content |-> [status |-> "ok"]]

\* The kernel answers the oldest unanswered request on the shell channel.
KernelReply ==
    /\ conn["shell"] = "open"
    /\ ~shellClosed
    /\ kernelInbox # <<>>
    /\ shell' = Append(shell, Reply(Head(kernelInbox)))
    /\ kernelInbox' = Tail(kernelInbox)
    /\ UNCHANGED <<pc, attachVars, session, conn, iopubVars, log, ingestVars,
                   shellClosed, sent, nextReqId, execReq, execResult,
                   listenExit, detachResult>>
    /\ UNCHANGED loopVars

\* The peer closes the shell channel.
KernelCloseShell ==
    /\ conn["shell"] = "open"
    /\ ~shellClosed
    /\ shellClosed' = TRUE
    /\ UNCHANGED <<pc, attachVars, session, conn, iopubVars, log, ingestVars,
                   shell, sent, kernelInbox, nextReqId, execReq, execResult,
                   listenExit, detachResult>>
    /\ UNCHANGED loopVars

----------------------------------------------------------------------------
(* JupyterClient::run_code *)

\* JupyterMessage::new("execute_request"): a fresh message id.
NewRequestId(n) == 200 + n

\* The pair returned by run_code: Ok((message, response)).
ExecPair(request, response) ==
    [status |-> "ok", request |-> request,
     reply_parent |-> response.parent_header.msg_id]

\* A faulty run_code that uses the iopub connection.
ExecSocketIopub == "iopub"

\* The connection run_code sends on and reads from: &mut self.shell.
ExecSocket == "shell"

\* A faulty run_code that gives up the wait after a deadline.
ExecDeadlineSet == TRUE

\* JupyterMessage::read(..).await is awaited as it is: no timeout wraps it.
ExecDeadline == FALSE

\* let message = ...; message.send(&mut self.shell).await?;
ExecSend ==
    /\ pc = "attached"
    /\ nextReqId <= MaxExec
    /\ nextReqId' = nextReqId + 1
    /\ \E ok \in BOOLEAN :
         IF ok
         THEN /\ sent' = Append(sent, [role |-> ExecSocket,
                                       id |-> NewRequestId(nextReqId)])
              /\ kernelInbox' = IF ExecSocket = "shell"
                                THEN Append(kernelInbox, NewRequestId(nextReqId))
                                ELSE kernelInbox
              /\ execReq' = NewRequestId(nextReqId)
              /\ pc' = "exec_read"
              /\ UNCHANGED execResult
         ELSE /\ execResult' = [status |-> "err", err |-> "send"]
              /\ UNCHANGED <<sent, kernelInbox, execReq, pc>>
    /\ UNCHANGED <<attachVars, session, conn, iopubVars, log, ingestVars,
                   shell, shellClosed, listenExit, detachResult>>
    /\ UNCHANGED loopVars

\* let response = JupyterMessage::read(&mut self.shell).await?;
\* Ok((message, response))
ExecRead ==
    /\ pc = "exec_read"
    /\ LET q == IF ExecSocket = "shell" THEN shell ELSE iopub
           closed == IF ExecSocket = "shell" THEN shellClosed ELSE iopubClosed
           r == Read(q, closed)
       IN /\ CanRead(q, closed) \/ ExecDeadline
          /\ shell' = IF ExecSocket = "shell" /\ CanRead(q, closed) THEN r.rest ELSE shell
          /\ iopub' = IF ExecSocket # "shell" /\ CanRead(q, closed) THEN r.rest ELSE iopub
          /\ execResult' =
                IF ~CanRead(q, closed) THEN [status |-> "err", err |-> "deadline"]
                ELSE IF r.ok THEN ExecPair(execReq, r.msg)
                ELSE [status |-> "err", err |-> r.err]
    /\ pc' = "attached"
    /\ UNCHANGED <<attachVars, session, conn, arrival, iopubClosed, log,
                   ingestVars, shellClosed, sent, kernelInbox, nextReqId,
                   execReq, listenExit, detachResult>>
    /\ UNCHANGED loopVars

\* The caller drops the run_code future while it awaits the reply.
ExecAbandon ==
    /\ pc = "exec_read"
    /\ pc' = "attached"
    /\ execResult' = [status |-> "abandoned"]
    /\ UNCHANGED <<attachVars, session, conn, iopubVars, log, ingestVars,
                   shell, shellClosed, sent, kernelInbox, nextReqId, execReq,
                   listenExit, detachResult>>
    /\ UNCHANGED loopVars

----------------------------------------------------------------------------
(* JupyterClient::next_io and JupyterClient::listen *)

\* One entry of the history of iopub reads and append attempts.
Event(by, op, id, row) == [by |-> by, op |-> op, id |-> id, row |-> row]

RecvEvent(by, r) ==
    IF r.ok THEN Event(by, "recv_ok", r.msg.header.msg_id, 0)
            ELSE Event(by, "recv_err", 0, 0)

\* Reads of iopub so far that found the channel closed: every other read
\* took one frame set off the queue.
ClosedReads ==
    Cardinality({i \in 1..Len(log) : log[i].op \in {"recv_ok", "recv_err"}})
        - (Len(arrival) - Len(iopub))

\* The reads of a closed channel are cut off after MaxClosedReads.
ReadBudget == Len(log) < MaxLog /\ (iopubClosed => ClosedReads < MaxClosedReads)

\* A faulty next_io that reads twice and returns the second result.
NextIoResultSkip(q, closed) ==
    LET first == Read(q, closed) IN
    IF first.ok /\ first.rest # <<>> THEN Read(first.rest, closed) ELSE first

\* What one next_io call yields: the result of one read of self.iopub.
NextIoResult(q, closed) == Read(q, closed)

\* let message = JupyterMessage::read(&mut self.iopub).await; return message;
NextIo ==
    /\ pc = "attached"
    /\ CanRead(iopub, iopubClosed)
    /\ ReadBudget
    /\ LET r == NextIoResult(iopub, iopubClosed) IN
         /\ iopub' = r.rest
         /\ log' = Append(log, RecvEvent("next_io", r))
    /\ UNCHANGED <<pc, attachVars, session, conn, arrival, iopubClosed,
                   ingestVars, shellVars, listenExit, detachResult>>
    /\ UNCHANGED loopVars

\* A faulty check that looks at the message's own header instead of its
\* parent_header.
IsShutdownHeader(message) ==
    /\ message.header.msg_type = "shutdown_request"
    /\ message.content.execution_state = "idle"

\* A faulty check that joins the two conditions with || instead of &&.
IsShutdownEither(message) ==
    \/ message.parent_header.msg_type = "shutdown_request"
    \/ message.content.execution_state = "idle"

\* "Check to see if the kernel has stopped"
IsShutdown(message) ==
    /\ message.parent_header.msg_type = "shutdown_request"
    /\ message.content.execution_state = "idle"

\* pub async fn listen(mut self): the client moves into listen.
ListenCall ==
    /\ pc = "attached"
    /\ pc' = "listen"
    /\ session' = "consumed"
    /\ UNCHANGED <<attachVars, conn, iopubVars, log, ingestVars, shellVars,
                   listenExit, detachResult>>
    /\ UNCHANGED loopVars

\* One iteration of the loop of listen: read, print, break on the shutdown
\* status or on a read error.  Returning drops self.
ListenStep ==
    /\ pc = "listen"
    /\ CanRead(iopub, iopubClosed)
    /\ ReadBudget
    /\ LET r == Read(iopub, iopubClosed)
           exit == IF ~r.ok THEN "error"
                   ELSE IF IsShutdown(r.msg) THEN "shutdown" ELSE "none"
       IN /\ iopub' = r.rest
          /\ log' = Append(log, RecvEvent("listen", r))
          /\ listenExit' = exit
          /\ pc' = IF exit = "none" THEN "listen" ELSE "done"
          /\ conn' = IF exit = "none" THEN conn ELSE Drop(conn)
    /\ UNCHANGED <<attachVars, session, arrival, iopubClosed, ingestVars,
                   shellVars, detachResult>>
    /\ UNCHANGED loopVars

----------------------------------------------------------------------------
(* gather_messages (web/src/startup.rs) *)

\* A faulty statement that binds the parent's id and type where the
\* message's own belong, and the other way round.
IngestRecordSwapped(new_id, runtime_id, message) ==
    [id |-> new_id,
     msg_id |-> message.parent_header.msg_id,
     msg_type |-> message.parent_header.msg_type,
     content |-> message.content,
     runtime_id |-> runtime_id,
     parent_msg_id |-> message.header.msg_id,
     parent_msg_type |-> message.header.msg_type]

\* A faulty statement that binds one fixed runtime id instead of the
\* runtime_id the loop was given.
IngestRecordFixedRuntime(new_id, runtime_id, message) ==
    [id |-> new_id,
     msg_id |-> message.header.msg_id,
     msg_type |-> message.header.msg_type,
     content |-> message.content,
     runtime_id |-> RuntimeId,
     parent_msg_id |-> message.parent_header.msg_id,
     parent_msg_type |-> message.parent_header.msg_type]

\* The row bound by the INSERT INTO disorganized_messages statement.
IngestRecord(new_id, runtime_id, message) ==
    [id |-> new_id,
     msg_id |-> message.header.msg_id,
     msg_type |-> message.header.msg_type,
     content |-> message.content,
     runtime_id |-> runtime_id,
     parent_msg_id |-> message.parent_header.msg_id,
     parent_msg_type |-> message.parent_header.msg_type]

\* A faulty loop that starts the statement and does not await it.
AwaitsAppendNot == FALSE

\* res.execute(&db).await: the statement is awaited inside the iteration.
AwaitsAppend == TRUE

\* The else branch of `if let Ok(message) = message`: "Log error", and the
\* loop goes round again.
OnRecvErr == "continue"

\* Faulty loops: one that returns on an append failure, one that tries the
\* failed statement again.
OnAppendErrStop == "stop"

OnAppendErrRetry == "retry"

\* The else branch of `if let Ok(_) = res.execute(&db).await`: "Log error",
\* and the loop goes round again.
OnAppendErr == "continue"

RemoveAt(q, i) == [j \in 1..(Len(q) - 1) |-> IF j < i THEN q[j] ELSE q[j + 1]]

\* gather_messages(runtime_id, client, db): the client moves into the loop.
IngestStart ==
    /\ pc = "attached"
    /\ pc' = "ingest"
    /\ session' = "consumed"
    /\ UNCHANGED <<attachVars, conn, iopubVars, log, ingestVars, shellVars,
                   listenExit, detachResult>>
    /\ UNCHANGED loopVars

\* client.next_io().await; Utc::now(); Uuid::new_v4(); on Ok the INSERT is
\* built and its execution started.
IngestRecv ==
    /\ pc = "ingest"
    /\ AwaitsAppend => pending = <<>>
    /\ CanRead(iopub, iopubClosed)
    /\ ReadBudget
    /\ LET r == Read(iopub, iopubClosed) IN
         /\ iopub' = r.rest
         /\ log' = Append(log, RecvEvent("ingest", r))
         /\ nextRowId' = nextRowId + 1
         /\ pending' = IF r.ok
                       THEN Append(pending, IngestRecord(nextRowId, RuntimeId, r.msg))
                       ELSE pending
         /\ attempts' = IF r.ok
                        THEN Append(attempts, IngestRecord(nextRowId, RuntimeId, r.msg))
                        ELSE attempts
         /\ pc' = IF r.ok \/ OnRecvErr = "continue" THEN "ingest" ELSE "ingest_done"
    /\ UNCHANGED <<attachVars, session, conn, arrival, iopubClosed, ledger,
                   shellVars, listenExit, detachResult>>
    /\ UNCHANGED loopVars

\* res.execute(&db).await completes: the row is committed or the statement
\* fails.
IngestAppend ==
    /\ pc = "ingest"
    /\ Len(log) <= MaxLog
    /\ \E i \in 1..Len(pending), ok \in BOOLEAN :
         LET rec == pending[i] IN
         /\ log' = Append(log, Event("ingest", IF ok THEN "append_ok" ELSE "append_err",
                                     rec.msg_id, rec.id))
         /\ ledger' = IF ok THEN Append(ledger, rec) ELSE ledger
         /\ pending' = IF ok \/ OnAppendErr # "retry" THEN RemoveAt(pending, i)
                       ELSE pending
         /\ pc' = IF ok \/ OnAppendErr # "stop" THEN "ingest" ELSE "ingest_done"
    /\ UNCHANGED <<attachVars, session, conn, iopubVars, attempts, nextRowId,
                   shellVars, listenExit, detachResult>>
    /\ UNCHANGED loopVars

----------------------------------------------------------------------------
(* Two gather_messages tasks, one per runtime, sharing the database pool *)

\* Message ids are unique across runtimes.
LoopBaseId(rt) == IF rt = "rt1" THEN 0 ELSE 100

\* The kernel of runtime rt broadcasts a busy status; it arrives intact or
\* undecodable.
LoopPublish(rt) ==
    /\ Len(loopArrival[rt]) < MaxLoopIopub
    /\ \E f \in {Envelope(LoopBaseId(rt) + Len(loopArrival[rt]) + 1,
                           [msg_type |-> "status", parent_type |-> "execute_request",
                            exec_state |-> "busy"]),
                  BadFrame} :
         /\ loopIopub' = [loopIopub EXCEPT ![rt] = Append(@, f)]
         /\ loopArrival' = [loopArrival EXCEPT ![rt] = Append(@, f)]
    /\ UNCHANGED <<loopPc, loopPending, loopLedger, loopNextRow, sessionVars>>

\* The task of runtime rt: client.next_io().await; Uuid::new_v4(); on Ok the
\* INSERT is built with its runtime_id and its execution started.
LoopRecv(rt) ==
    /\ loopPc[rt] = "ingest"
    /\ AwaitsAppend => loopPending[rt] = <<>>
    /\ CanRead(loopIopub[rt], FALSE)
    /\ LET r == Read(loopIopub[rt], FALSE) IN
         /\ loopIopub' = [loopIopub EXCEPT ![rt] = r.rest]
         /\ loopNextRow' = loopNextRow + 1
         /\ loopPending' = IF r.ok
                           THEN [loopPending EXCEPT
                                   ![rt] = Append(@, IngestRecord(loopNextRow, rt, r.msg))]
                           ELSE loopPending
         /\ loopPc' = IF r.ok \/ OnRecvErr = "continue" THEN loopPc
                      ELSE [loopPc EXCEPT ![rt] = "ingest_done"]
    /\ UNCHANGED <<loopArrival, loopLedger, sessionVars>>

\* The task of runtime rt: res.execute(&db).await completes on the shared
\* pool; the row is committed whole or the statement fails.
LoopAppend(rt) ==
    /\ loopPc[rt] = "ingest"
    /\ \E i \in 1..Len(loopPending[rt]), ok \in BOOLEAN :
         LET rec == loopPending[rt][i] IN
         /\ loopLedger' = IF ok THEN Append(loopLedger, rec) ELSE loopLedger
         /\ loopPending' = IF ok \/ OnAppendErr # "retry"
                           THEN [loopPending EXCEPT ![rt] = RemoveAt(@, i)]
                           ELSE loopPending
         /\ loopPc' = IF ok \/ OnAppendErr # "stop" THEN loopPc
                      ELSE [loopPc EXCEPT ![rt] = "ingest_done"]
    /\ UNCHANGED <<loopIopub, loopArrival, loopNextRow, sessionVars>>

----------------------------------------------------------------------------
(* JupyterClient::detach *)

\* A faulty detach that leaves the heartbeat socket out of the join.
ClosedByDetachPartial == {"shell", "iopub", "stdin", "control"}

\* The sockets whose close() futures are joined.
ClosedByDetach == {"shell", "iopub", "stdin", "control", "heartbeat"}

\* A faulty detach that awaits the join without the timeout.
TimeoutNotArmed == FALSE

\* timeout(timeout_duration, close_sockets): the join is raced against the
\* 60 ms timer.
TimeoutArmed == TRUE

\* A faulty detach that borrows the client (&mut self) and leaves it with the
\* caller.
DetachBorrows == FALSE

\* pub async fn detach(self): detach takes the client by value.
DetachConsumes == TRUE

\* pub async fn detach(self): the client moves into detach.
DetachCall ==
    /\ pc = "attached"
    /\ pc' = "detach_start"
    /\ session' = IF DetachConsumes THEN "consumed" ELSE session
    /\ UNCHANGED <<attachVars, conn, iopubVars, log, ingestVars, shellVars,
                   listenExit, detachResult>>
    /\ UNCHANGED loopVars

\* The first poll of timeout(..) polls tokio::join!, which polls every
\* close() future once: all the closes are under way.
DetachPoll ==
    /\ pc = "detach_start"
    /\ pc' = "detach_wait"
    /\ conn' = [r \in Roles |-> IF r \in ClosedByDetach /\ conn[r] = "open"
                                THEN "closing" ELSE conn[r]]
    /\ UNCHANGED <<attachVars, session, iopubVars, log, ingestVars, shellVars,
                   listenExit, detachResult>>
    /\ UNCHANGED loopVars

\* One socket finishes closing (it may also never do so).
CloseComplete ==
    /\ pc = "detach_wait"
    /\ \E r \in Roles :
         /\ conn[r] = "closing"
         /\ conn' = [conn EXCEPT ![r] = "closed"]
    /\ UNCHANGED <<pc, attachVars, session, iopubVars, log, ingestVars,
                   shellVars, listenExit, detachResult>>
    /\ UNCHANGED loopVars

JoinDone == \A r \in ClosedByDetach : conn[r] = "closed"

\* Ok(_) => Ok(()): the join completed before the timer.
DetachOk ==
    /\ pc = "detach_wait"
    /\ JoinDone
    /\ detachResult' = "ok"
    /\ pc' = IF DetachConsumes THEN "done" ELSE "attached"
    /\ UNCHANGED <<attachVars, session, conn, iopubVars, log, ingestVars,
                   shellVars, listenExit>>
    /\ UNCHANGED loopVars

\* Err(_) => Err(anyhow!("Timeout reached while closing sockets.")): the
\* timer elapsed with the join still pending; the join future is dropped.
DetachTimeout ==
    /\ pc = "detach_wait"
    /\ TimeoutArmed
    /\ ~JoinDone
    /\ detachResult' = "timeout"
    /\ pc' = IF DetachConsumes THEN "done" ELSE "attached"
    /\ UNCHANGED <<attachVars, session, conn, iopubVars, log, ingestVars,
                   shellVars, listenExit>>
    /\ UNCHANGED loopVars

----------------------------------------------------------------------------
(* Specifications *)

Next ==
    \/ AttachCall
    \/ AttachStep
    \/ AttachReturn
    \/ KernelPublish
    \/ KernelCloseIopub
    \/ KernelReply
    \/ KernelCloseShell
    \/ ExecSend
    \/ ExecRead
    \/ ExecAbandon
    \/ NextIo
    \/ ListenCall
    \/ ListenStep
    \/ IngestStart
    \/ IngestRecv
    \/ IngestAppend
    \/ DetachCall
    \/ DetachPoll
    \/ CloseComplete
    \/ DetachOk
    \/ DetachTimeout

Spec == Init /\ [][Next]_vars

\* A caller that uses the request/reply side of the client: attach, run_code,
\* detach.
NextShell ==
    \/ AttachCall
    \/ AttachStep
    \/ AttachReturn
    \/ KernelReply
    \/ KernelCloseShell
    \/ ExecSend
    \/ ExecRead
    \/ ExecAbandon
    \/ DetachCall
    \/ DetachPoll
    \/ CloseComplete
    \/ DetachOk
    \/ DetachTimeout

ShellSpec == Init /\ [][NextShell]_vars

\* A caller that uses the broadcast side of the client: attach, next_io,
\* listen, gather_messages, detach.
NextIopub ==
    \/ AttachCall
    \/ AttachStep
    \/ AttachReturn
    \/ KernelPublish
    \/ KernelCloseIopub
    \/ NextIo
    \/ ListenCall
    \/ ListenStep
    \/ IngestStart
    \/ IngestRecv
    \/ IngestAppend
    \/ DetachCall
    \/ DetachPoll
    \/ CloseComplete
    \/ DetachOk
    \/ DetachTimeout

IopubSpec == Init /\ [][NextIopub]_vars

\* A caller that uses every operation of the client, against a kernel whose
\* broadcast traffic is the busy status only.
NextSession ==
    \/ AttachCall
    \/ AttachStep
    \/ AttachReturn
    \/ KernelPublishBusy
    \/ KernelCloseIopub
    \/ KernelReply
    \/ KernelCloseShell
    \/ ExecSend
    \/ ExecRead
    \/ ExecAbandon
    \/ NextIo
    \/ ListenCall
    \/ ListenStep
    \/ IngestStart
    \/ IngestRecv
    \/ IngestAppend
    \/ DetachCall
    \/ DetachPoll
    \/ CloseComplete
    \/ DetachOk
    \/ DetachTimeout

SessionSpec == Init /\ [][NextSession]_vars

\* Two gather_messages tasks run side by side, each on the client of its own
\* runtime, and share only the table they insert into.
NextLoops ==
    \/ \E rt \in Runtimes : LoopPublish(rt)
    \/ \E rt \in Runtimes : LoopRecv(rt)
    \/ \E rt \in Runtimes : LoopAppend(rt)

LoopsSpec == Init /\ [][NextLoops]_vars

\* The tokio runtime polls a task whose future is ready, and the 60 ms timer
\* of detach fires.
FairShellSpec ==
    /\ ShellSpec
    /\ WF_vars(DetachPoll)
    /\ WF_vars(DetachOk)
    /\ WF_vars(DetachTimeout)

----------------------------------------------------------------------------
(* Properties *)

Open(r) == conn[r] = "open"

LogIdx == 1..Len(log)

IsRecv(e) == e.op \in {"recv_ok", "recv_err"}
IsAppend(e) == e.op \in {"append_ok", "append_err"}

\* The reads and the append attempts of the gather_messages loop.
IngestRecvOk == SelectSeq(log, LAMBDA e : e.by = "ingest" /\ e.op = "recv_ok")
IngestAttempts == SelectSeq(log, LAMBDA e : e.by = "ingest" /\ IsAppend(e))

\* KernelPublish numbers the envelopes by arrival: the envelope with message
\* id n is the n-th frame set that arrived.
Arrived(id) == arrival[id]

\* The shutdown signal as the specification words it.
ShutdownSignal(f) ==
    /\ f.parent_header.msg_type = "shutdown_request"
    /\ f.content.execution_state = "idle"

\* C1: if one of the five connects of attach fails, attach returns an
\* AttachError value (it does not abort), returns no Session, and leaves no
\* connection open.
C1_AttachAtomicity ==
    failedStep \in Roles =>
        /\ attachResult = "err"
        /\ session = "none"
        /\ \A r \in Roles : ~Open(r)

\* C2: whenever run_code returns a pair (request, reply), the reply's
\* parent_header id equals the request's header id.
C2_Correlation ==
    execResult.status = "ok" => execResult.reply_parent = execResult.request

\* C3: in gather_messages a failed receive is the last thing the loop does:
\* no receive and no append attempt follows it.
C3_RecvFailureTerminal ==
    \A i \in LogIdx :
        (log[i].by = "ingest" /\ log[i].op = "recv_err") => i = Len(log)

\* C4: an append failure never stops gather_messages: after a failed append
\* the loop is still running, the next thing it does is the next receive, and
\* the envelope that receive yields gets its own append attempt.
C4_IngestContinuity ==
    \A i \in LogIdx :
        log[i].op = "append_err" =>
            /\ pc = "ingest"
            /\ (i < Len(log) => IsRecv(log[i + 1]))
            /\ (i + 1 < Len(log) /\ log[i + 1].op = "recv_ok" =>
                    IsAppend(log[i + 2]) /\ log[i + 2].id = log[i + 1].id)

C4_Witness ==
    \E i \in LogIdx :
        /\ log[i].op = "append_err"
        /\ i + 2 <= Len(log)
        /\ log[i + 1].op = "recv_ok"
        /\ IsAppend(log[i + 2])

\* C5: gather_messages makes exactly one append attempt per successfully
\* received envelope, in the order received: the attempts are the received
\* envelopes less the one whose statement is in flight, so none is made for a
\* failed receive and none is repeated.
C5_OneAttemptPerEnvelope ==
    /\ Len(IngestAttempts) + Len(pending) = Len(IngestRecvOk)
    /\ \A j \in 1..Len(IngestAttempts) : IngestAttempts[j].id = IngestRecvOk[j].id
    /\ \A j, k \in 1..Len(IngestAttempts) :
           IngestAttempts[j].id = IngestAttempts[k].id => j = k

C5_Witness ==
    /\ pending = <<>>
    /\ Len(IngestAttempts) >= 2
    /\ \E i \in LogIdx : log[i].by = "ingest" /\ log[i].op = "recv_err"
    /\ \E i \in LogIdx : log[i].op = "append_err"

\* C6: the rows gather_messages persists are envelopes of the arrival
\* sequence, in arrival order, committed one per append; when no append
\* fails they are exactly the envelopes the loop received.
C6_ArrivalOrder ==
    /\ \A j \in 1..Len(ledger) :
           /\ ledger[j].msg_id \in 1..Len(arrival)
           /\ ~IsBad(Arrived(ledger[j].msg_id))
           /\ Arrived(ledger[j].msg_id).header.msg_id = ledger[j].msg_id
    /\ \A j, k \in 1..Len(ledger) : j < k => ledger[j].msg_id < ledger[k].msg_id
    /\ ((\A i \in LogIdx : log[i].op # "append_err") /\ pending = <<>>) =>
           /\ Len(ledger) = Len(IngestRecvOk)
           /\ \A j \in 1..Len(ledger) : ledger[j].msg_id = IngestRecvOk[j].id

C6_Witness ==
    /\ Len(ledger) >= 2
    /\ Len(ledger) < Len(IngestRecvOk)
    /\ pending = <<>>

\* C7: a JupyterClient held by the caller (returned by attach and not yet
\* moved into detach) has all five connections open.
C7_AllOrNothing ==
    session = "held" => \A r \in Roles : Open(r)

C7_Witness ==
    /\ session = "held"
    /\ pc = "attached"
    /\ \A r \in Roles : Open(r)
    /\ log # <<>>

\* C8: when listen reads an envelope carrying the shutdown signal, that read
\* is its last one and listen has returned, the exit being the orderly one.
C8_ShutdownDetection ==
    \A i \in LogIdx :
        (/\ log[i].by = "listen"
         /\ log[i].op = "recv_ok"
         /\ ShutdownSignal(Arrived(log[i].id))) =>
            /\ i = Len(log)
            /\ pc = "done"
            /\ listenExit = "shutdown"

C8_Witness ==
    /\ listenExit = "shutdown"
    /\ iopub # <<>>
    /\ \E i \in LogIdx : i < Len(log) /\ log[i].by = "listen"

\* C9: detach always returns: once called, it eventually yields success or
\* the timeout error, also when some close never completes.
C9_DetachReturns ==
    (pc = "detach_start") ~> (detachResult \in {"ok", "timeout"})

C9_Witness ==
    /\ detachResult = "timeout"
    /\ \A r \in Roles : conn[r] = "closing"

\* C10: detach returns success only when all five connections finished
\* closing before the timer, the timeout error otherwise, and after either
\* outcome every connection is closed or closing.
C10_DetachOutcome ==
    /\ detachResult = "ok" => \A r \in Roles : conn[r] = "closed"
    /\ detachResult = "timeout" => \E r \in Roles : conn[r] # "closed"
    /\ detachResult # "none" => \A r \in Roles : conn[r] \in {"closing", "closed"}

C10_Witness ==
    /\ detachResult = "ok"
    /\ \A r \in Roles : conn[r] = "closed"


\* C11: gather_messages ends on the in-band shutdown signal: once it has
\* received an envelope carrying the signal, it performs no further receive.
C11_IngestStopsOnShutdown ==
    \A i \in LogIdx :
        (/\ log[i].by = "ingest"
         /\ log[i].op = "recv_ok"
         /\ ShutdownSignal(Arrived(log[i].id))) =>
            \A j \in LogIdx : j > i => ~IsRecv(log[j])


\* C12: every append attempt of gather_messages carries a row id no other
\* attempt carries, the runtime id the loop was started for, the message id
\* and type of the received envelope's header, and the message id and type
\* of that envelope's parent_header.
C12_RecordLinkage ==
    /\ Len(attempts) = Len(IngestRecvOk)
    /\ \A j, k \in 1..Len(attempts) : attempts[j].id = attempts[k].id => j = k
    /\ \A j \in 1..Len(attempts) :
         LET a == attempts[j]
             m == Arrived(IngestRecvOk[j].id)
         IN /\ a.runtime_id = RuntimeId
            /\ a.msg_id = m.header.msg_id
            /\ a.msg_type = m.header.msg_type
            /\ a.parent_msg_id = m.parent_header.msg_id
            /\ a.parent_msg_type = m.parent_header.msg_type

C12_Witness ==
    /\ Len(attempts) >= 2
    /\ attempts[1].parent_msg_type # attempts[2].parent_msg_type
    /\ Len(ledger) < Len(attempts)
    /\ pending = <<>>


\* The lifecycle state of the Session, read off the caller's position.  A
\* failed attach leaves no Session; listen and gather_messages hold an
\* attached client; "Terminal" is the client gone for good.
LifeState ==
    CASE pc = "start" -> "Detached"
      [] pc = "attaching" -> "Attaching"
      [] pc \in {"attach_failed", "panicked"} -> "Detached"
      [] pc \in {"attached", "exec_read", "listen", "ingest"} -> "Attached"
      [] pc \in {"detach_start", "detach_wait"} -> "Detaching"
      [] OTHER -> "Terminal"

ChainEdges ==
    { <<"Detached", "Attaching">>, <<"Attaching", "Attached">>,
      <<"Attached", "Detaching">>, <<"Detaching", "Terminal">> }

DetachCalled == pc \in {"detach_start", "detach_wait"} \/ detachResult # "none"

\* Once detach has been called nothing acts on the Session again: no
\* run_code, next_io, listen or gather_messages step, no second detach, and
\* the Session is never Attached again.
NoUseAfterDetach ==
    DetachCalled =>
        /\ DetachCalled'
        /\ LifeState' \in {"Detaching", "Terminal"}
        /\ session' = "consumed"
        /\ log' = log
        /\ sent' = sent
        /\ execResult' = execResult
        /\ Len(shell') >= Len(shell)
        /\ Len(iopub') >= Len(iopub)
        /\ (detachResult # "none" => detachResult' = detachResult)

\* C13: the Session's state moves only along Detached -> Attaching ->
\* Attached -> Detaching -> Detached(terminal), and once detach has been
\* called nothing acts on the Session again.
C13_Lifecycle ==
    [][/\ (LifeState' = LifeState \/ <<LifeState, LifeState'>> \in ChainEdges)
       /\ NoUseAfterDetach]_vars

\* C13 as amended: besides the edges of the chain, a failed attach goes from
\* Attaching back to Detached, and listen returning drops the client, which
\* takes it from Attached to the terminal state without a detach.
C13_LifecycleAmended ==
    [][/\ \/ LifeState' = LifeState
          \/ <<LifeState, LifeState'>> \in ChainEdges
          \/ /\ LifeState = "Attaching" /\ LifeState' = "Detached"
             /\ attachResult' \in {"err", "panic"}
          \/ /\ LifeState = "Attached" /\ LifeState' = "Terminal"
             /\ pc = "listen" /\ listenExit' # "none"
       /\ NoUseAfterDetach]_vars

C13_Witness ==
    /\ detachResult # "none"
    /\ log # <<>>
    /\ sent # <<>>
    /\ session = "consumed"


\* C14: run_code waits without a timeout of its own: while the shell channel
\* is open and holds no frame, a run_code that awaits its reply does not
\* return (only the caller dropping it ends the wait); and a wait that ends
\* on a closed shell channel ends with ConnectionClosed and no pair.
C14_UnboundedWait ==
    [][/\ (pc = "exec_read" /\ shell = <<>> /\ ~shellClosed) =>
              (pc' = "exec_read" \/ execResult'.status = "abandoned")
       /\ (pc = "exec_read" /\ shellClosed /\ pc' # "exec_read"
              /\ execResult'.status # "abandoned") =>
              execResult' = [status |-> "err", err |-> "ConnectionClosed"]]_vars

C14_Witness ==
    /\ shellClosed
    /\ execResult.status = "err"
    /\ execResult.err = "ConnectionClosed"
    /\ shell # <<>>


\* The frame sets taken off the iopub queue so far, and the envelopes among
\* them.
ConsumedFrames == SubSeq(arrival, 1, Len(arrival) - Len(iopub))
ConsumedEnvelopes == SelectSeq(ConsumedFrames, LAMBDA f : ~IsBad(f))
NextIoReturned == SelectSeq(log, LAMBDA e : e.by = "next_io" /\ e.op = "recv_ok")

\* While the caller holds the client, the envelopes next_io has returned are
\* the envelopes among the consumed frame sets, in arrival order.
NextIoInOrder ==
    session = "held" =>
        /\ Len(NextIoReturned) = Len(ConsumedEnvelopes)
        /\ \A j \in 1..Len(NextIoReturned) :
               NextIoReturned[j].id = ConsumedEnvelopes[j].header.msg_id

\* One next_io call: on a closed channel it fails and takes nothing;
\* otherwise it takes exactly one frame set, the oldest, and a successful
\* call returns it.
NextIoStep ==
    (log' # log /\ log'[Len(log')].by = "next_io") =>
        LET e == log'[Len(log')] IN
        /\ Len(log') = Len(log) + 1
        /\ IF iopubClosed
           THEN e.op = "recv_err" /\ iopub' = iopub
           ELSE /\ iopub # <<>>
                /\ iopub' = Tail(iopub)
                /\ e.op = "recv_ok" => e.id = Head(iopub).header.msg_id

\* C15: each successful next_io call removes exactly one envelope from the
\* iopub connection and returns the oldest one not yet returned, so the calls
\* return the envelopes in arrival order, none skipped or repeated; once the
\* channel is closed every call fails.
C15_NextEventOrder == []NextIoInOrder /\ [][NextIoStep]_vars

C15_Witness ==
    /\ session = "held"
    /\ iopubClosed
    /\ iopub # <<>>
    /\ Len(NextIoReturned) >= 2
    /\ log[Len(log)].op = "recv_err"


\* C17: gather_messages holds at most one envelope in flight: while the
\* INSERT of a received envelope has not completed, the loop has made no
\* further receive (the read of that envelope is the last thing it did).
C17_OneInFlight ==
    /\ Len(pending) <= 1
    /\ pending # <<>> =>
           /\ log # <<>>
           /\ log[Len(log)] = Event("ingest", "recv_ok", pending[1].msg_id, 0)

C17_Witness ==
    /\ Len(pending) = 1
    /\ iopub # <<>>
    /\ ~iopubClosed
    /\ ledger # <<>>


\* The row a whole record of envelope m, received by the loop of runtime rt,
\* is: every column from m, the runtime id rt.
WholeRecord(row, rt, m) ==
    row = [id |-> row.id,
           msg_id |-> m.header.msg_id,
           msg_type |-> m.header.msg_type,
           content |-> m.content,
           runtime_id |-> rt,
           parent_msg_id |-> m.parent_header.msg_id,
           parent_msg_type |-> m.parent_header.msg_type]

\* C18: with two gather_messages tasks running side by side and sharing only
\* the table, every committed row is a whole record of one envelope that
\* arrived for one runtime and carries that runtime's id, no envelope and no
\* row id appears twice, and the rows of each runtime are in that runtime's
\* arrival order.
C18_ConcurrentLoops ==
    /\ \A j \in 1..Len(loopLedger) :
         \E rt \in Runtimes : \E p \in 1..Len(loopArrival[rt]) :
            /\ ~IsBad(loopArrival[rt][p])
            /\ WholeRecord(loopLedger[j], rt, loopArrival[rt][p])
    /\ \A j, k \in 1..Len(loopLedger) :
         (loopLedger[j].id = loopLedger[k].id
             \/ loopLedger[j].msg_id = loopLedger[k].msg_id) => j = k
    /\ \A j, k \in 1..Len(loopLedger) :
         (j < k /\ loopLedger[j].runtime_id = loopLedger[k].runtime_id) =>
             loopLedger[j].msg_id < loopLedger[k].msg_id

C18_Witness ==
    /\ Len(loopLedger) >= 3
    /\ loopLedger[1].runtime_id = "rt1"
    /\ loopLedger[2].runtime_id = "rt2"
    /\ loopLedger[3].runtime_id = "rt1"


ListenRead(e) == e.by = "listen" /\ e.op = "recv_ok"

\* C19: listen returns in two cases only, a failed read or an envelope that
\* meets both shutdown conditions; after any other envelope, one that meets
\* just one of the two conditions included, it goes on to the next read.
C19_ListenExits ==
    /\ listenExit = "shutdown" =>
           /\ ListenRead(log[Len(log)])
           /\ ShutdownSignal(Arrived(log[Len(log)].id))
    /\ listenExit = "error" =>
           log[Len(log)] = Event("listen", "recv_err", 0, 0)
    /\ \A i \in LogIdx :
           (ListenRead(log[i]) /\ ~ShutdownSignal(Arrived(log[i].id))) =>
               \/ i < Len(log)
               \/ pc = "listen" /\ listenExit = "none"

C19_Witness ==
    /\ pc = "listen"
    /\ \E i, j \in LogIdx :
         /\ ListenRead(log[i]) /\ ListenRead(log[j])
         /\ Arrived(log[i].id).parent_header.msg_type = "shutdown_request"
         /\ Arrived(log[i].id).content.execution_state = "busy"
         /\ Arrived(log[j].id).parent_header.msg_type = "execute_request"
         /\ Arrived(log[j].id).content.execution_state = "idle"


\* The step of execute() that sends, and the step that reads the reply.
ExecSendStep == pc = "attached" /\ nextReqId' # nextReqId

ExecReadStep ==
    pc = "exec_read" /\ pc' = "attached" /\ execResult'.status # "abandoned"

\* What execute() leaves alone: the other four connections, the frames
\* waiting on iopub and the history of iopub reads.
ExecFrame == conn' = conn /\ iopub' = iopub /\ log' = log

\* C20: one execute() call makes one send, on the shell connection; only
\* after a send that succeeded does it read, once, from the shell connection,
\* taking one frame when it returns a pair; it touches no other connection,
\* a failed send returns the error with nothing read, and the request of the
\* returned pair is the one it sent.
C20_ExecuteFrame ==
    /\ [](/\ \A i \in 1..Len(sent) : sent[i].role = "shell"
          /\ \A i, j \in 1..Len(sent) : sent[i].id = sent[j].id => i = j
          /\ Len(sent) <= nextReqId - 1
          /\ pc = "exec_read" => (sent # <<>> /\ sent[Len(sent)].id = execReq)
          /\ execResult.status = "ok" =>
                 \E i \in 1..Len(sent) : execResult.request = sent[i].id)
    /\ [][/\ ExecSendStep =>
               /\ ExecFrame
               /\ shell' = shell
               /\ \/ /\ sent' = sent
                     /\ execResult' = [status |-> "err", err |-> "send"]
                     /\ pc' = "attached"
                  \/ /\ sent' = Append(sent, [role |-> "shell", id |-> execReq'])
                     /\ pc' = "exec_read"
                     /\ execResult' = execResult
          /\ ExecReadStep =>
               /\ ExecFrame
               /\ sent' = sent /\ kernelInbox' = kernelInbox
               /\ \/ shell' = shell /\ execResult'.status = "err"
                  \/ shell # <<>> /\ shell' = Tail(shell)
               /\ execResult'.status = "ok" =>
                      /\ shell # <<>> /\ shell' = Tail(shell)
                      /\ execResult'.request = sent[Len(sent)].id
          /\ ~(ExecSendStep \/ ExecReadStep) =>
               (sent' = sent /\ Len(shell') >= Len(shell))]_vars

\* A send failed, a later call sent and returned a pair, and frames are still
\* waiting on iopub.
C20_Witness ==
    /\ execResult.status = "ok"
    /\ nextReqId > Len(sent) + 1
    /\ iopub # <<>>
    /\ pc = "attached"

====
